---- MODULE Spec2Model ----
(***************************************************************************)
(* Model of the asteroids mini-game (src/src/main.rs): the application     *)
(* state machine State, the round Game, the Ship and the Asteroids.        *)
(*                                                                         *)
(* Numbers.  f64 times are integers counting 1/TimeScale seconds.  f32     *)
(* lengths and speeds are integers counting 1/Scale units; every f32       *)
(* operation rounds its exact result to that grid (round to nearest, ties  *)
(* to even), as IEEE arithmetic rounds to its own grid.  The ship's        *)
(* horizontal speed and position can also hold the IEEE special values,    *)
(* so they are records: Fin(v), PInf, NInf, NaN.                           *)
(***************************************************************************)
EXTENDS Integers, Sequences, FiniteSets, TLC

VARIABLES
    clock,         \* the value the last get_time() call returned
    best_time,     \* State.best_time
    game,          \* State.game: None or a Game record
    keys,          \* the input snapshot of the latest tick
    finished,      \* what Game::update returned on the latest tick
    elapsed_time,  \* the local elapsed_time of the latest Game::update
    culled,        \* history: how many asteroids retain removed on the latest tick
    born,          \* history: for each asteroid of the round, the clock at its creation
    max_reported   \* history: the largest time reported so far, or 0

vars == <<clock, best_time, game, keys, finished, elapsed_time, culled, born,
          max_reported>>

----------------------------------------------------------------------------
(* Bounds and number representation *)

MaxClock == 4       \* ticks stop reading a clock beyond this value
MaxDelta == 2       \* largest clock advance between two ticks

TimeScale == 2      \* clock units per second
Scale == 4          \* f32 units per 1.0

Deltas == 0..MaxDelta
IntraDeltas == {0, 1}   \* clock advance between two reads within one tick

ScreenWidth == 200
ScreenHeight == 100

Max(a, b) == IF a >= b THEN a ELSE b

\* n / d for d > 0, rounded to the nearest integer, ties to even
RoundDiv(n, d) ==
    LET q == n \div d
        r == n % d
    IN  IF 2 * r < d THEN q
        ELSE IF 2 * r > d THEN q + 1
        ELSE IF q % 2 = 0 THEN q ELSE q + 1

\* f32 constant k as grid units
F(k) == k * Scale

\* (k as f32) * (e as f32), e a time in clock units, as grid units
MulTime(units, e) == RoundDiv(units * e, TimeScale)

----------------------------------------------------------------------------
(* IEEE special values of the ship's horizontal speed and position *)

Fin(v) == [k |-> "fin", v |-> v]
NaN == [k |-> "nan", v |-> 0]
PInf == [k |-> "inf", v |-> 1]
NInf == [k |-> "inf", v |-> -1]

IsFin(x) == x.k = "fin"

\* x / d, d a finite non-negative f32 in grid units
DivF(x, d) ==
    IF x.k = "nan" THEN NaN
    ELSE IF x.k = "inf" THEN x
    ELSE IF d = 0 THEN (IF x.v = 0 THEN NaN ELSE IF x.v > 0 THEN PInf ELSE NInf)
    ELSE IF x.v >= 0 THEN Fin(RoundDiv(x.v * Scale, d))
    ELSE Fin(-RoundDiv((-x.v) * Scale, d))

\* x + y
AddF(x, y) ==
    IF x.k = "nan" \/ y.k = "nan" THEN NaN
    ELSE IF x.k = "inf" /\ y.k = "inf" THEN (IF x.v = y.v THEN x ELSE NaN)
    ELSE IF x.k = "inf" THEN x
    ELSE IF y.k = "inf" THEN y
    ELSE Fin(x.v + y.v)

\* f32::clamp(x, lo, hi) for finite lo <= hi: NaN stays NaN
ClampF(x, lo, hi) ==
    IF x.k = "nan" THEN NaN
    ELSE IF x.k = "inf" THEN (IF x.v > 0 THEN Fin(hi) ELSE Fin(lo))
    ELSE IF x.v < lo THEN Fin(lo)
    ELSE IF x.v > hi THEN Fin(hi)
    ELSE x

----------------------------------------------------------------------------
(* Ship *)

SHIP_WIDTH == 25
SHIP_HEIGHT == 50
SHIP_OFFSET == 30
ACCELERATION == 200
VERTICAL_ACCELERATION == 50
DECELERATION == 180
BASE_VERTICAL_SPEED == 100

HalfWidth == F(SHIP_WIDTH) \div 2
ShipRadius == F(SHIP_WIDTH + SHIP_HEIGHT) \div 4

\* variant: the ship starts at the left edge of the window
ShipDefault_LeftEdge ==
    [position |-> Fin(HalfWidth),
     speed |-> Fin(0),
     vertical_speed |-> F(BASE_VERTICAL_SPEED)]

ShipDefault ==
    [position |-> Fin(F(ScreenWidth) \div 2),
     speed |-> Fin(0),
     vertical_speed |-> F(BASE_VERTICAL_SPEED)]

\* variant: the vertical speed decays instead of growing
ShipUpdate_Slows(ship, e, keyA, keyD) ==
    LET s0 == DivF(ship.speed, MulTime(F(DECELERATION), e))
        s1 == IF keyA THEN AddF(s0, Fin(-MulTime(F(ACCELERATION), e))) ELSE s0
        s2 == IF keyD THEN AddF(s1, Fin(MulTime(F(ACCELERATION), e))) ELSE s1
        p  == ClampF(AddF(ship.position, s2), HalfWidth, F(ScreenWidth) - HalfWidth)
    IN  [position |-> p,
         speed |-> s2,
         vertical_speed |-> ship.vertical_speed - MulTime(F(VERTICAL_ACCELERATION), e)]

ShipUpdate(ship, e, keyA, keyD) ==
    LET s0 == DivF(ship.speed, MulTime(F(DECELERATION), e))
        s1 == IF keyA THEN AddF(s0, Fin(-MulTime(F(ACCELERATION), e))) ELSE s0
        s2 == IF keyD THEN AddF(s1, Fin(MulTime(F(ACCELERATION), e))) ELSE s1
        p  == ClampF(AddF(ship.position, s2), HalfWidth, F(ScreenWidth) - HalfWidth)
    IN  [position |-> p,
         speed |-> s2,
         vertical_speed |-> ship.vertical_speed + MulTime(F(VERTICAL_ACCELERATION), e)]

\* variant: circles that touch count as a collision
is_collapse_Touching(ship, point, radius) ==
    /\ IsFin(ship.position)
    /\ LET dx == point.x - ship.position.v
           dy == point.y - (F(ScreenHeight) - F(SHIP_OFFSET))
           rr == radius + ShipRadius
       IN  dx * dx + dy * dy <= rr * rr

\* (point - ship_center).length() < radius + ship_radius; a NaN position
\* makes the length NaN and the comparison false
is_collapse(ship, point, radius) ==
    /\ IsFin(ship.position)
    /\ LET dx == point.x - ship.position.v
           dy == point.y - (F(ScreenHeight) - F(SHIP_OFFSET))
           rr == radius + ShipRadius
       IN  dx * dx + dy * dy < rr * rr

----------------------------------------------------------------------------
(* Asteroid *)

MIN_RADIUS == 25
MAX_RADIUS == 100
MAX_SPEED == 200

\* the draws of f32::gen_range the model considers, as <<x, speed_x, speed_y,
\* radius>>: both ends of every range occur
RandomDraws ==
    { [x |-> F(ScreenWidth) \div 2, speed_x |-> F(0), speed_y |-> F(MAX_SPEED) - 1,
       radius |-> F(MAX_RADIUS) - 1],
      [x |-> F(0), speed_x |-> F(0), speed_y |-> F(0), radius |-> F(MIN_RADIUS)],
      [x |-> F(0), speed_x |-> F(MAX_SPEED) - 1, speed_y |-> F(MAX_SPEED) - 1,
       radius |-> F(MIN_RADIUS)],
      [x |-> F(ScreenWidth) - 1, speed_x |-> F(MAX_SPEED) - 1, speed_y |-> F(0),
       radius |-> F(MAX_RADIUS) - 1] }

AsteroidDefault(rnd) ==
    [position |-> [x |-> rnd.x, y |-> -2 * F(MAX_RADIUS)],
     speed |-> [x |-> rnd.speed_x, y |-> rnd.speed_y],
     radius |-> rnd.radius]

\* variant: the bottom bound is not tested
out_of_bounds_SidesOnly(a) ==
    LET left == -3 * F(MAX_RADIUS)
        right == F(ScreenWidth) + 3 * F(MAX_RADIUS)
    IN  a.position.x < left \/ a.position.x > right

out_of_bounds(a) ==
    LET left == -3 * F(MAX_RADIUS)
        right == F(ScreenWidth) + 3 * F(MAX_RADIUS)
        bottom == F(ScreenHeight) + 3 * F(MAX_RADIUS)
    IN  a.position.x < left \/ a.position.x > right \/ a.position.y > bottom

\* variant: an asteroid wears down as it moves
AsteroidUpdate_Erodes(a, e, ship_speed) ==
    [a EXCEPT !.position =
                [x |-> a.position.x + MulTime(a.speed.x, e),
                 y |-> a.position.y + MulTime(a.speed.y, e) + MulTime(ship_speed, e)],
              !.radius = a.radius - e]

\* variant: the ship's speed carries the asteroids up the screen
AsteroidUpdate_Upward(a, e, ship_speed) ==
    [a EXCEPT !.position =
        [x |-> a.position.x + MulTime(a.speed.x, e),
         y |-> a.position.y + MulTime(a.speed.y, e) - MulTime(ship_speed, e)]]

AsteroidUpdate(a, e, ship_speed) ==
    [a EXCEPT !.position =
        [x |-> a.position.x + MulTime(a.speed.x, e),
         y |-> a.position.y + MulTime(a.speed.y, e) + MulTime(ship_speed, e)]]

----------------------------------------------------------------------------
(* Game: one round *)

None == [some |-> FALSE]
Some(v) == [some |-> TRUE, v |-> v]

\* the literal 0.5 of the spawn test, in clock units
SpawnThreshold == TimeScale \div 2

\* variant: the round's start is taken as the start of the application
GameDefault_ZeroStart(time) ==
    [start_time |-> 0,
     last_update |-> time,
     ship |-> ShipDefault,
     asteroid_timer |-> 0,
     asteroids |-> <<>>]

GameDefault(time) ==
    [start_time |-> time,
     last_update |-> time,
     ship |-> ShipDefault,
     asteroid_timer |-> 0,
     asteroids |-> <<>>]

\* self.asteroids.retain(|asteroid| !asteroid.out_of_bounds())
NotOut(a) == ~out_of_bounds(a)
\* variant: retain keeps the asteroids that are out of bounds
Retain_Inverted(asts) == SelectSeq(asts, out_of_bounds)

Retain(asts) == SelectSeq(asts, NotOut)

\* variant: each asteroid is tested where it was and then moved
RECURSIVE UpdateAsteroids_TestFirst(_, _, _, _)
UpdateAsteroids_TestFirst(asts, i, e, ship) ==
    IF i > Len(asts) THEN [asteroids |-> asts, hit |-> 0]
    ELSE LET a == AsteroidUpdate(asts[i], e, ship.vertical_speed)
             moved == [asts EXCEPT ![i] = a]
         IN  IF is_collapse(ship, asts[i].position, asts[i].radius)
             THEN [asteroids |-> moved, hit |-> i]
             ELSE UpdateAsteroids_TestFirst(moved, i + 1, e, ship)

\* the for loop of Game::update from index i on: each asteroid is moved and
\* then tested against the ship; the first hit ends the loop
RECURSIVE UpdateAsteroids(_, _, _, _)
UpdateAsteroids(asts, i, e, ship) ==
    IF i > Len(asts) THEN [asteroids |-> asts, hit |-> 0]
    ELSE LET a == AsteroidUpdate(asts[i], e, ship.vertical_speed)
             moved == [asts EXCEPT ![i] = a]
         IN  IF is_collapse(ship, a.position, a.radius)
             THEN [asteroids |-> moved, hit |-> i]
             ELSE UpdateAsteroids(moved, i + 1, e, ship)

\* variant: the spawn test is >= 0.5
SpawnStep_AtThreshold(g, e, rnd) ==
    LET timer == g.asteroid_timer + e
    IN  IF timer >= SpawnThreshold
        THEN [g EXCEPT !.asteroid_timer = 0,
                       !.asteroids = Append(g.asteroids, AsteroidDefault(rnd))]
        ELSE [g EXCEPT !.asteroid_timer = timer]

\* variant: the timer keeps what it ran over the threshold
SpawnStep_KeepsRemainder(g, e, rnd) ==
    LET timer == g.asteroid_timer + e
    IN  IF timer > SpawnThreshold
        THEN [g EXCEPT !.asteroid_timer = timer - SpawnThreshold,
                       !.asteroids = Append(g.asteroids, AsteroidDefault(rnd))]
        ELSE [g EXCEPT !.asteroid_timer = timer]

\* asteroid_timer += elapsed_time; if asteroid_timer > 0.5 { reset; push }
SpawnStep(g, e, rnd) ==
    LET timer == g.asteroid_timer + e
    IN  IF timer > SpawnThreshold
        THEN [g EXCEPT !.asteroid_timer = 0,
                       !.asteroids = Append(g.asteroids, AsteroidDefault(rnd))]
        ELSE [g EXCEPT !.asteroid_timer = timer]

\* variant: the ship is updated before the asteroids are moved and tested
GameUpdate_ShipFirst(g, escape, keyA, keyD, t1, t2, rnd) ==
    IF escape
    THEN [ret |-> Some(t1 - g.start_time), elapsed |-> None, now |-> t1,
          removed |-> 0, game |-> g]
    ELSE LET e == t1 - g.last_update
             g1 == SpawnStep(g, e, rnd)
             g2 == [g1 EXCEPT !.asteroids = Retain(g1.asteroids),
                              !.ship = ShipUpdate(g1.ship, e, keyA, keyD)]
             loop == UpdateAsteroids(g2.asteroids, 1, e, g2.ship)
             g3 == [g2 EXCEPT !.asteroids = loop.asteroids]
         IN  IF loop.hit # 0
             THEN [ret |-> Some(t2 - g.start_time), elapsed |-> Some(e), now |-> t2,
                   removed |-> Len(g1.asteroids) - Len(g2.asteroids), game |-> g3]
             ELSE [ret |-> None, elapsed |-> Some(e), now |-> t2,
                   removed |-> Len(g1.asteroids) - Len(g2.asteroids),
                   game |-> [g3 EXCEPT !.last_update = t2]]

\* variant: the abort key is looked at only after the frame was simulated
GameUpdate_AbortLast(g, escape, keyA, keyD, t1, t2, rnd) ==
    LET e == t1 - g.last_update
        g1 == SpawnStep(g, e, rnd)
        g2 == [g1 EXCEPT !.asteroids = Retain(g1.asteroids)]
        loop == UpdateAsteroids(g2.asteroids, 1, e, g2.ship)
        g3 == [g2 EXCEPT !.asteroids = loop.asteroids]
    IN  IF loop.hit # 0
        THEN [ret |-> Some(t2 - g.start_time), elapsed |-> Some(e), now |-> t2,
              removed |-> Len(g1.asteroids) - Len(g2.asteroids), game |-> g3]
        ELSE IF escape
        THEN [ret |-> Some(t2 - g.start_time), elapsed |-> Some(e), now |-> t2,
              removed |-> Len(g1.asteroids) - Len(g2.asteroids), game |-> g3]
        ELSE [ret |-> None, elapsed |-> Some(e), now |-> t2,
              removed |-> Len(g1.asteroids) - Len(g2.asteroids),
              game |-> [g3 EXCEPT !.ship = ShipUpdate(g3.ship, e, keyA, keyD),
                                  !.last_update = t2]]

\* Game::update.  t1 is what get_time() returns at the first read of the
\* tick, t2 >= t1 what it returns at the second; rnd holds the random draws
\* of Asteroid::default.  Gives the return value, the local elapsed_time,
\* the last clock value read, the number of asteroids retain removed and
\* the game as the call leaves it.
GameUpdate(g, escape, keyA, keyD, t1, t2, rnd) ==
    IF escape
    THEN [ret |-> Some(t1 - g.start_time), elapsed |-> None, now |-> t1,
          removed |-> 0, game |-> g]
    ELSE LET e == t1 - g.last_update
             g1 == SpawnStep(g, e, rnd)
             g2 == [g1 EXCEPT !.asteroids = Retain(g1.asteroids)]
             loop == UpdateAsteroids(g2.asteroids, 1, e, g2.ship)
             g3 == [g2 EXCEPT !.asteroids = loop.asteroids]
         IN  IF loop.hit # 0
             THEN [ret |-> Some(t2 - g.start_time), elapsed |-> Some(e), now |-> t2,
                   removed |-> Len(g1.asteroids) - Len(g2.asteroids), game |-> g3]
             ELSE [ret |-> None, elapsed |-> Some(e), now |-> t2,
                   removed |-> Len(g1.asteroids) - Len(g2.asteroids),
                   game |-> [g3 EXCEPT !.ship = ShipUpdate(g3.ship, e, keyA, keyD),
                                       !.last_update = t2]]

----------------------------------------------------------------------------
(* State: the application *)

Init ==
    /\ clock = 0
    /\ best_time = 0
    /\ game = None
    /\ keys = [enter |-> FALSE, escape |-> FALSE, a |-> FALSE, d |-> FALSE]
    /\ finished = None
    /\ elapsed_time = None
    /\ culled = 0
    /\ born = <<>>
    /\ max_reported = 0

\* variant: the start key restarts a round that is already running
StartsGame_AnyTime(g, enter) == enter

\* if self.game.is_none() && is_key_pressed(KeyCode::Enter)
StartsGame(g, enter) == g = None /\ enter

\* variant: a finished round is not discarded
GameAfter_KeepsRound(r) == r.game

\* if let Some(new_time) = finished { self.game = None; ... }
GameAfter(r) == IF r.ret.some THEN None ELSE r.game

\* variant: every reported time replaces the record
NewBest_Always(best, new_time) == new_time

\* if new_time > self.best_time { self.best_time = new_time }
NewBest(best, new_time) == IF new_time > best THEN new_time ELSE best

\* the random number generator is consulted only when an asteroid is created;
\* from: the draws the environment can make
NoDraw == [x |-> 0, speed_x |-> 0, speed_y |-> 0, radius |-> F(MIN_RADIUS)]
Draws(from, escape, t1) ==
    IF ~escape /\ game.asteroid_timer + (t1 - game.last_update) > SpawnThreshold
    THEN from ELSE {NoDraw}

\* the entries of the history born that belong to the asteroids retain keeps
StillBorn(asts, births) ==
    LET upto[i \in 0..Len(births)] ==
            IF i = 0 THEN <<>>
            ELSE IF out_of_bounds(asts[i]) THEN upto[i - 1]
            ELSE Append(upto[i - 1], births[i])
    IN  upto[Len(births)]

\* variant: the start branch does not return, the new round is updated on the
\* tick that created it
tick_FallsThrough(env, enter, escape, keyA, keyD, d1) ==
    LET t1 == clock + d1
        starts == StartsGame(game, enter)
        g == IF starts THEN GameDefault(t1) ELSE game
    IN  /\ t1 <= env.cap
        /\ keys' = [enter |-> enter, escape |-> escape, a |-> keyA, d |-> keyD]
        /\ IF g = None
           THEN /\ finished' = None
                /\ elapsed_time' = None
                /\ culled' = 0
                /\ born' = <<>>
                /\ UNCHANGED <<clock, game, best_time, max_reported>>
           ELSE \E d2 \in (IF escape THEN {0} ELSE env.intra),
                   rnd \in (IF starts THEN {NoDraw} ELSE Draws(env.draws, escape, t1)) :
                LET r == GameUpdate(g, escape, keyA, keyD, t1, t1 + d2, rnd)
                    stayed == StillBorn(g.asteroids, born)
                IN  /\ t1 + d2 <= env.cap
                    /\ clock' = r.now
                    /\ finished' = r.ret
                    /\ elapsed_time' = r.elapsed
                    /\ culled' = r.removed
                    /\ game' = GameAfter(r)
                    /\ born' = IF r.ret.some THEN <<>>
                               ELSE IF Len(r.game.asteroids) > Len(stayed)
                               THEN Append(stayed, t1) ELSE stayed
                    /\ IF r.ret.some
                       THEN /\ best_time' = NewBest(best_time, r.ret.v)
                            /\ max_reported' = Max(max_reported, r.ret.v)
                       ELSE UNCHANGED <<best_time, max_reported>>

\* State::update, one tick of the main loop, in an environment env: get_time()
\* returns values up to env.cap and advances by a value of env.intra between
\* the two reads of one tick; env.draws are the draws of the random generator
tick(env, enter, escape, keyA, keyD, d1) ==
    LET t1 == clock + d1
    IN  /\ t1 <= env.cap
        /\ keys' = [enter |-> enter, escape |-> escape, a |-> keyA, d |-> keyD]
        /\ IF StartsGame(game, enter)
           THEN /\ game' = GameDefault(t1)
                /\ clock' = t1
                /\ finished' = None
                /\ elapsed_time' = None
                /\ culled' = 0
                /\ born' = <<>>
                /\ UNCHANGED <<best_time, max_reported>>
           ELSE IF game = None
           THEN /\ finished' = None
                /\ elapsed_time' = None
                /\ culled' = 0
                /\ born' = <<>>
                /\ UNCHANGED <<clock, game, best_time, max_reported>>
           ELSE \E d2 \in (IF escape THEN {0} ELSE env.intra),
                   rnd \in Draws(env.draws, escape, t1) :
                LET r == GameUpdate(game, escape, keyA, keyD, t1, t1 + d2, rnd)
                    stayed == StillBorn(game.asteroids, born)
                IN  /\ t1 + d2 <= env.cap
                    /\ clock' = r.now
                    /\ finished' = r.ret
                    /\ elapsed_time' = r.elapsed
                    /\ culled' = r.removed
                    /\ game' = GameAfter(r)
                    /\ born' = IF r.ret.some THEN <<>>
                               ELSE IF Len(r.game.asteroids) > Len(stayed)
                               THEN Append(stayed, t1) ELSE stayed
                    /\ IF r.ret.some
                       THEN /\ best_time' = NewBest(best_time, r.ret.v)
                            /\ max_reported' = Max(max_reported, r.ret.v)
                       ELSE UNCHANGED <<best_time, max_reported>>

\* the environment of the specification Spec
World == [cap |-> MaxClock, intra |-> IntraDeltas, draws |-> RandomDraws]

update(enter, escape, keyA, keyD, d1) == tick(World, enter, escape, keyA, keyD, d1)

\* the key combinations the model considers, as sets of keys down on a tick
\* (Enter and Escape: pressed on this tick)
KeyCombos ==
    { {}, {"Enter"}, {"Escape"}, {"A"}, {"D"}, {"A", "D"},
      {"Enter", "Escape"}, {"Enter", "D"} }

Next == \E down \in KeyCombos, d1 \in Deltas :
            update("Enter" \in down, "Escape" \in down, "A" \in down, "D" \in down, d1)

Spec == Init /\ [][Next]_vars

----------------------------------------------------------------------------
(* Properties of the application state machine *)

\* a round that was started on the latest tick and not updated yet
JustStarted == game # None /\ ~elapsed_time.some

\* C1: best_time is the maximum of 0 and every round time reported so far;
\* it never decreases, and it changes only on a tick that reports a time
\* strictly greater than it, to that time.
C1_BestTimeIsMaxReported ==
    /\ [](best_time = max_reported)
    /\ [][/\ best_time' >= best_time
          /\ best_time' # best_time =>
                /\ finished'.some
                /\ finished'.v > best_time
                /\ best_time' = finished'.v]_vars

\* a round reported a time below the record, and the record stayed
C1_Witness == finished.some /\ finished.v > 0 /\ finished.v < best_time

\* C2: a round is created only on a tick that finds no round and the start
\* key pressed, with start_time the clock value of that tick; while a round
\* is active the tick leaves exactly what Game::update leaves, whether or not
\* the start key is pressed.
C2_StartOnlyWhenIdle ==
    [][/\ (game = None /\ game' # None) =>
              /\ keys'.enter
              /\ game'.start_time = clock'
       /\ (game = None /\ ~keys'.enter) => game' = None
       /\ (game # None /\ game' # None) =>
              /\ elapsed_time'.some
              /\ game'.start_time = game.start_time
              /\ \E rnd \in RandomDraws \cup {NoDraw} :
                    game' = GameUpdate(game, keys'.escape, keys'.a, keys'.d,
                                       game.last_update + elapsed_time'.v,
                                       clock', rnd).game]_vars

\* the start key was pressed on a tick that updated a running round
C2_Witness ==
    /\ game # None /\ keys.enter /\ elapsed_time.some
    /\ clock > game.start_time

\* C3: while a round is active, the tick leaves no round if and only if
\* Game::update reported a time on that tick; otherwise the same round (same
\* start_time) stays active.
C3_IdleIffReported ==
    [][game # None =>
          /\ (game' = None) <=> finished'.some
          /\ game' # None => game'.start_time = game.start_time]_vars

\* a round ended by a collision: a time was reported without the abort key
C3_Witness == game = None /\ finished.some /\ ~keys.escape

\* C4: with the abort key pressed while a round is active, Game::update
\* reports (current time - start_time) at once: no elapsed time is computed
\* and the round's fields are left as they were.
C4_AbortSkipsSimulation ==
    [][(game # None /\ keys'.escape) =>
          /\ finished' = Some(clock' - game.start_time)
          /\ elapsed_time' = None
          /\ \A rnd \in RandomDraws, t2 \in clock'..MaxClock :
                GameUpdate(game, TRUE, keys'.a, keys'.d, clock', t2, rnd).game = game]_vars

\* a round aborted after some time, with an asteroid timer that had run
C4_Witness == game = None /\ keys.escape /\ finished.some /\ finished.v > 0

\* C5: a round started on one tick and aborted on the next reports the clock
\* advance between the two ticks (0 if there was none) and leaves no round;
\* best_time is not lowered, and is unchanged when the report is 0.
C5_StartAbortRoundTrip ==
    [][(JustStarted /\ keys'.escape) =>
          /\ finished' = Some(clock' - clock)
          /\ game' = None
          /\ best_time' >= best_time
          /\ (clock' = clock) => (finished'.v = 0 /\ best_time' = best_time)]_vars

\* an abort that reported 0 while a record was standing
C5_Witness ==
    game = None /\ keys.escape /\ finished = Some(0) /\ best_time > 0

----------------------------------------------------------------------------
(* Properties of the ship and of the spawn timer *)

\* C6: in every state of a round the ship's horizontal position is a number
\* within [half_width, screen_width - half_width].
C6_ShipInBounds ==
    game # None =>
        /\ IsFin(game.ship.position)
        /\ game.ship.position.v >= HalfWidth
        /\ game.ship.position.v <= F(ScreenWidth) - HalfWidth

\* C7: within a round vertical_speed starts at the baseline, every ship
\* update adds VERTICAL_ACCELERATION * elapsed to it without a cap, and it
\* never decreases.
C7_VerticalSpeedGrows ==
    /\ [](game # None => game.ship.vertical_speed >= F(BASE_VERTICAL_SPEED))
    /\ [][/\ (game = None /\ game' # None) =>
                game'.ship.vertical_speed = F(BASE_VERTICAL_SPEED)
          /\ (game # None /\ game' # None) =>
                /\ game'.ship.vertical_speed >= game.ship.vertical_speed
                /\ game'.ship.vertical_speed = game.ship.vertical_speed
                      + (F(VERTICAL_ACCELERATION) * elapsed_time'.v) \div TimeScale]_vars

\* a round whose ship has gained vertical speed over several updates
C7_Witness ==
    /\ game # None /\ elapsed_time.some
    /\ game.ship.vertical_speed >= F(BASE_VERTICAL_SPEED) + 2 * F(VERTICAL_ACCELERATION)

\* the asteroids of the round that are not out of bounds, in order
Kept(asts) == SelectSeq(asts, LAMBDA a : ~out_of_bounds(a))

\* C8 as stated: when the time accumulated since the last reset is exactly
\* 0.5, one asteroid is appended and the timer is reset to 0.
C8_SpawnAtExactlyHalf ==
    [][(/\ game # None /\ game' # None
        /\ game.asteroid_timer + elapsed_time'.v = SpawnThreshold) =>
          /\ game'.asteroid_timer = 0
          /\ Len(game'.asteroids) = Len(Kept(game.asteroids)) + 1]_vars

\* C8 as amended: when the accumulated time exceeds 0.5, exactly one asteroid
\* is appended and the timer is reset to 0; when it is 0.5 or less, no
\* asteroid is appended and the timer holds the accumulated time.
C8_SpawnAboveHalf ==
    [][(game # None /\ game' # None) =>
          LET t == game.asteroid_timer + elapsed_time'.v
              n == Len(Kept(game.asteroids))
          IN  /\ t > SpawnThreshold =>
                    (game'.asteroid_timer = 0 /\ Len(game'.asteroids) = n + 1)
              /\ t <= SpawnThreshold =>
                    (game'.asteroid_timer = t /\ Len(game'.asteroids) = n)]_vars

\* the first asteroid of a round, spawned by a tick of 0.5 that found the
\* timer at exactly 0.5
C8_Witness ==
    /\ game # None /\ elapsed_time = Some(SpawnThreshold)
    /\ game.asteroid_timer = 0 /\ Len(game.asteroids) = 1
    /\ game.last_update - game.start_time = 2 * SpawnThreshold

\* C9: after every update that leaves the round active the timer is within
\* [0, 0.5]; the tick appends at most one asteroid, at the back, and only
\* when it reset the timer to 0, however large the elapsed time is.
C9_TimerRangeOneSpawn ==
    /\ [](game # None =>
            (game.asteroid_timer >= 0 /\ game.asteroid_timer <= SpawnThreshold))
    /\ [][(game # None /\ game' # None) =>
            LET kept == Kept(game.asteroids)
                n == Len(kept)
                new == game'.asteroids
            IN  /\ Len(new) \in {n, n + 1}
                /\ \A i \in 1..n :
                      new[i].radius = kept[i].radius /\ new[i].speed = kept[i].speed
                /\ Len(new) = n + 1 =>
                      /\ game'.asteroid_timer = 0
                      /\ game.asteroid_timer + elapsed_time'.v > SpawnThreshold
                      /\ new[n + 1].position.y >= -2 * F(MAX_RADIUS)]_vars

\* a tick whose elapsed time covers two spawn periods appended one asteroid
C9_Witness ==
    /\ game # None /\ elapsed_time.some
    /\ elapsed_time.v >= 2 * SpawnThreshold
    /\ game.asteroid_timer = 0 /\ Len(game.asteroids) = 1

\* C10: every round starts in the same state: both times are the clock value
\* of the start tick, the timer is 0, there are no asteroids, the ship is at
\* the centre of the window with no horizontal speed and the baseline
\* vertical speed; the start leaves best_time as it was.
C10_FreshRound ==
    [][(game = None /\ game' # None) =>
          /\ game' = [start_time |-> clock',
                      last_update |-> clock',
                      ship |-> [position |-> Fin(F(ScreenWidth) \div 2),
                                speed |-> Fin(0),
                                vertical_speed |-> F(BASE_VERTICAL_SPEED)],
                      asteroid_timer |-> 0,
                      asteroids |-> <<>>]
          /\ best_time' = best_time]_vars

\* a round started after an earlier round had set a record
C10_Witness == JustStarted /\ best_time > 0 /\ clock > best_time

----------------------------------------------------------------------------
(* Properties of the collision test and of the asteroids *)

\* offsets, in grid units, of the points the collision test is probed at,
\* seen from the ship's centre.  For the radii 25 and 100 the sums of the
\* radii are 43.75 and 118.75 (175 and 475 units), the hypotenuses of the
\* 3-4-5 triangles with the legs 105, 140 and 285, 380.
ProbeOffsets == {0, 105, 140, 174, 175, 176, 285, 380, 474, 475, 476}
SignedOffsets == ProbeOffsets \cup {-o : o \in ProbeOffsets}
ProbeHeights == {0, 140, -140, 380, -380}

\* C11: is_collapse(point, radius) is true exactly when the point is closer
\* than radius + 18.75 to (ship position, screen_height - 30): circles that
\* touch do not collide, and a ship at 100 collides with a circle of radius 25
\* centred at (100, screen_height - 30).  A NaN position collides with nothing.
C11_CollidesIffCloser ==
    game # None =>
        LET ship == game.ship
            cy == Scale * ScreenHeight - Scale * 30
        IN  /\ IsFin(ship.position) =>
                \A dx \in SignedOffsets, dy \in ProbeHeights, r \in {100, 400} :
                    is_collapse(ship, [x |-> ship.position.v + dx, y |-> cy + dy], r)
                        <=> (dx * dx + dy * dy < (r + 75) * (r + 75))
            /\ IsFin(ship.position) =>
                /\ ~is_collapse(ship, [x |-> ship.position.v + 175, y |-> cy], 100)
                /\ ~is_collapse(ship, [x |-> ship.position.v - 105, y |-> cy + 140], 100)
                /\ is_collapse(ship, [x |-> ship.position.v + 174, y |-> cy], 100)
            /\ ship.position = Fin(Scale * 100) =>
                is_collapse(ship, [x |-> Scale * 100, y |-> cy], Scale * 25)
            /\ ~IsFin(ship.position) =>
                \A dx \in SignedOffsets, r \in {100, 400} :
                    ~is_collapse(ship, [x |-> dx, y |-> cy], r)

\* the ship of a running round stands at 100 after an update, where the
\* circle of radius 25 at (100, screen_height - 30) collides with it
C11_Witness ==
    /\ game # None /\ elapsed_time.some
    /\ game.ship.position = Fin(Scale * 100)
    /\ is_collapse(game.ship, [x |-> Scale * 100, y |-> Scale * ScreenHeight - Scale * 30],
                   Scale * 25)

\* an asteroid with the given position, for probing out_of_bounds
AsteroidAt(x, y) ==
    [position |-> [x |-> x, y |-> y], speed |-> [x |-> 0, y |-> 0], radius |-> F(MIN_RADIUS)]

\* C12: the culling step removes exactly the asteroids that are, when it
\* runs, left of -3*MAX_RADIUS, right of screen_width + 3*MAX_RADIUS or below
\* screen_height + 3*MAX_RADIUS (there is no top bound), and keeps the others
\* in their order; x = screen_width + 4*MAX_RADIUS is out of bounds, the
\* centre of the screen is not.
C12_CullExactlyOutOfBounds ==
    /\ [](/\ out_of_bounds(AsteroidAt(F(ScreenWidth) + 4 * F(MAX_RADIUS), 0))
          /\ ~out_of_bounds(AsteroidAt(F(ScreenWidth) \div 2, F(ScreenHeight) \div 2))
          /\ ~out_of_bounds(AsteroidAt(F(ScreenWidth) \div 2, -100 * F(MAX_RADIUS)))
          /\ ~out_of_bounds(AsteroidAt(-3 * F(MAX_RADIUS), F(ScreenHeight) + 3 * F(MAX_RADIUS)))
          /\ out_of_bounds(AsteroidAt(-3 * F(MAX_RADIUS) - 1, 0))
          /\ out_of_bounds(AsteroidAt(0, F(ScreenHeight) + 3 * F(MAX_RADIUS) + 1)))
    /\ [][(game # None /\ elapsed_time'.some) =>
            LET old == game.asteroids
                e == elapsed_time'.v
                gone(a) == \/ a.position.x < -3 * F(MAX_RADIUS)
                           \/ a.position.x > F(ScreenWidth) + 3 * F(MAX_RADIUS)
                           \/ a.position.y > F(ScreenHeight) + 3 * F(MAX_RADIUS)
                stay == {i \in 1..Len(old) : ~gone(old[i])}
                spawned == IF game.asteroid_timer + e > SpawnThreshold THEN 1 ELSE 0
            IN  /\ culled' = Len(old) - Cardinality(stay)
                /\ game' # None =>
                      /\ Len(game'.asteroids) = Cardinality(stay) + spawned
                      /\ \A i \in stay :
                            LET k == Cardinality({j \in stay : j <= i})
                            IN  /\ game'.asteroids[k].radius = old[i].radius
                                /\ game'.asteroids[k].speed = old[i].speed
                                /\ game'.asteroids[k].position.x =
                                      old[i].position.x + MulTime(old[i].speed.x, e)]_vars

\* a tick removed an asteroid and kept another one
C12_Witness == game # None /\ culled > 0 /\ Len(game.asteroids) >= 1

\* C13: every asteroid of a round has a radius within [MIN_RADIUS,
\* MAX_RADIUS]; an update leaves the radius of every asteroid it keeps as it
\* was; the asteroid a tick creates starts at y = -2*MAX_RADIUS and at an x
\* within [0, screen_width), from where the same tick moves it.
C13_RadiusFixedSpawnAbove ==
    /\ [](game # None =>
            \A i \in 1..Len(game.asteroids) :
                /\ game.asteroids[i].radius >= Scale * MIN_RADIUS
                /\ game.asteroids[i].radius <= Scale * MAX_RADIUS)
    /\ [][(game # None /\ game' # None) =>
            LET kept == Kept(game.asteroids)
                n == Len(kept)
                new == game'.asteroids
                e == elapsed_time'.v
            IN  /\ \A i \in 1..n : new[i].radius = kept[i].radius
                /\ Len(new) > n =>
                      LET a == new[n + 1]
                          x0 == a.position.x - MulTime(a.speed.x, e)
                          y0 == a.position.y - MulTime(a.speed.y, e)
                                    - MulTime(game.ship.vertical_speed, e)
                      IN  /\ y0 = -2 * Scale * MAX_RADIUS
                          /\ x0 >= 0
                          /\ x0 < Scale * ScreenWidth]_vars

\* a large asteroid that an earlier tick created is still in the round, behind
\* it the asteroid of the latest tick
C13_Witness ==
    /\ game # None /\ Len(game.asteroids) >= 2
    /\ game.asteroids[1].radius = F(MAX_RADIUS) - 1
    /\ game.asteroids[1].position.y > game.asteroids[2].position.y

----------------------------------------------------------------------------
(* Properties of the order of one frame *)

\* C14 as stated: in an update that leaves the round active, every asteroid
\* that stays was moved with the vertical speed the ship has after this
\* frame's ship update, and no asteroid collides with the ship as it is after
\* this frame's ship update.
C14_ShipBeforeAsteroids ==
    [][(game # None /\ game' # None) =>
          LET kept == Kept(game.asteroids)
              new == game'.asteroids
              e == elapsed_time'.v
          IN  /\ \A i \in 1..Len(kept) :
                    new[i].position.y = kept[i].position.y + MulTime(kept[i].speed.y, e)
                                          + MulTime(game'.ship.vertical_speed, e)
              /\ \A i \in 1..Len(new) :
                    ~is_collapse(game'.ship, new[i].position, new[i].radius)]_vars

\* C14 as amended: the asteroids are moved and tested before the ship is
\* updated: every asteroid that stays was moved with the vertical speed the
\* ship had before this frame's ship update, and no asteroid collides with the
\* ship as it was before this frame's ship update.
C14_AsteroidsBeforeShip ==
    [][(game # None /\ game' # None) =>
          LET kept == Kept(game.asteroids)
              new == game'.asteroids
              e == elapsed_time'.v
          IN  /\ \A i \in 1..Len(kept) :
                    new[i].position.y = kept[i].position.y + MulTime(kept[i].speed.y, e)
                                          + MulTime(game.ship.vertical_speed, e)
              /\ \A i \in 1..Len(new) :
                    ~is_collapse(game.ship, new[i].position, new[i].radius)]_vars

\* a frame with elapsed time moved an asteroid of an earlier tick and then
\* moved the ship to the right
C14_Witness ==
    /\ game # None /\ elapsed_time.some /\ elapsed_time.v > 0
    /\ Len(game.asteroids) >= 2
    /\ keys.d
    /\ IsFin(game.ship.position)
    /\ game.ship.position.v > F(ScreenWidth) \div 2

\* the asteroids of list, each moved by one frame of e
MovedBy(list, e, ship_speed) ==
    [i \in 1..Len(list) |-> AsteroidUpdate(list[i], e, ship_speed)]

\* the places in list of the asteroids that intersect the ship
Hits(list, ship) ==
    {i \in 1..Len(list) : is_collapse(ship, list[i].position, list[i].radius)}

\* the asteroids the loop of a frame of e goes through: those that stayed,
\* and behind them the one the frame created, if it created one
FrameList(g, e, rnd) ==
    IF g.asteroid_timer + e > SpawnThreshold
    THEN Append(Kept(g.asteroids), AsteroidDefault(rnd))
    ELSE Kept(g.asteroids)

\* C15: without the abort key, Game::update reports (current time -
\* start_time) if and only if one of the asteroids that stayed, moved by this
\* frame, intersects the ship's circle; the loop stops at the first of them
\* in spawn order and leaves the later ones unmoved; otherwise nothing is
\* reported, last_update is the current time and the round goes on.
C15_ReportIffCollision ==
    /\ [](game # None =>
            \A e \in Deltas, rnd \in RandomDraws :
                LET list == FrameList(game, e, rnd)
                    loop == UpdateAsteroids(list, 1, e, game.ship)
                    hits == Hits(MovedBy(list, e, game.ship.vertical_speed), game.ship)
                IN  /\ hits = {} => loop.hit = 0
                    /\ hits # {} =>
                          /\ loop.hit \in hits
                          /\ \A j \in hits : loop.hit <= j
                          /\ \A j \in 1..Len(list) :
                                j > loop.hit => loop.asteroids[j] = list[j])
    /\ [][(game # None /\ ~keys'.escape) =>
            LET e == elapsed_time'.v
                rnds == IF game.asteroid_timer + e > SpawnThreshold
                        THEN RandomDraws ELSE {NoDraw}
            IN  /\ elapsed_time'.some
                /\ finished'.some =>
                      /\ game' = None
                      /\ finished'.v = clock' - game.start_time
                      /\ \E rnd \in rnds :
                            Hits(MovedBy(FrameList(game, e, rnd), e,
                                         game.ship.vertical_speed), game.ship) # {}
                /\ ~finished'.some =>
                      /\ game' # None
                      /\ game'.last_update = clock'
                      /\ Hits(game'.asteroids, game.ship) = {}]_vars

\* a frame with elapsed time ended the round by a collision while the player
\* was steering left, and the reported time became the record
C15_Witness ==
    /\ game = None /\ finished.some /\ ~keys.escape /\ keys.a
    /\ elapsed_time.some /\ elapsed_time.v > 0
    /\ finished.v = best_time

\* two asteroids of one frame intersect the ship: the first one decides
C15_TwoHits ==
    game # None /\ \E e \in Deltas, rnd \in RandomDraws :
        Cardinality(Hits(MovedBy(FrameList(game, e, rnd), e, game.ship.vertical_speed),
                         game.ship)) >= 2

----------------------------------------------------------------------------
(* Properties of the frame without elapsed time and of the start tick *)

\* C16: a ship update with elapsed time 0 leaves the ship well defined: its
\* horizontal speed is a finite number (0 stays 0 when no move key is held)
\* and its position is a number within the window's bounds.
C16_ZeroElapsedKeepsShipDefined ==
    [][(/\ game # None /\ game' # None
        /\ elapsed_time' = Some(0)
        /\ IsFin(game.ship.speed) /\ IsFin(game.ship.position)) =>
          /\ IsFin(game'.ship.speed)
          /\ IsFin(game'.ship.position)
          /\ game'.ship.position.v >= HalfWidth
          /\ game'.ship.position.v <= F(ScreenWidth) - HalfWidth
          /\ (game.ship.speed = Fin(0) /\ ~keys'.a /\ ~keys'.d) =>
                game'.ship.speed = Fin(0)]_vars

\* C17: no asteroid of a round is left of x = 0 or above y = -2*MAX_RADIUS,
\* and its own speed has no negative component; an update moves no asteroid
\* it keeps to the left or upwards; every asteroid an update removes is beyond
\* the right or the bottom bound, none beyond the left one.
C17_AsteroidsOnlyMoveRightAndDown ==
    /\ [](game # None =>
            \A i \in 1..Len(game.asteroids) :
                /\ game.asteroids[i].position.x >= 0
                /\ game.asteroids[i].position.y >= -2 * F(MAX_RADIUS)
                /\ game.asteroids[i].speed.x >= 0
                /\ game.asteroids[i].speed.y >= 0)
    /\ [][(game # None /\ elapsed_time'.some) =>
            LET old == game.asteroids
                kept == Kept(old)
            IN  /\ \A i \in 1..Len(old) :
                      out_of_bounds(old[i]) =>
                          /\ old[i].position.x >= -3 * F(MAX_RADIUS)
                          /\ \/ old[i].position.x > F(ScreenWidth) + 3 * F(MAX_RADIUS)
                             \/ old[i].position.y > F(ScreenHeight) + 3 * F(MAX_RADIUS)
                /\ game' # None =>
                      \A i \in 1..Len(kept) :
                          /\ game'.asteroids[i].position.x >= kept[i].position.x
                          /\ game'.asteroids[i].position.y >= kept[i].position.y]_vars

\* an asteroid that drifted to the right of where any asteroid starts has
\* left through the bottom bound and awaits its removal
C17_Witness ==
    /\ game # None
    /\ \E i \in 1..Len(game.asteroids) :
          /\ game.asteroids[i].position.y > F(ScreenHeight) + 3 * F(MAX_RADIUS)
          /\ game.asteroids[i].position.x >= F(ScreenWidth)

\* C19: the tick that starts a round does not update it: whatever other keys
\* are pressed with Enter (Escape included), after the tick the fresh round is
\* there, no time was reported, no Game::update ran and best_time is as
\* before; a tick reports a time only for a round that was there before it.
C19_StartTickOnlyStarts ==
    [][/\ (game = None /\ keys'.enter) =>
              /\ game' = GameDefault(clock')
              /\ finished' = None
              /\ elapsed_time' = None
              /\ culled' = 0
              /\ best_time' = best_time
       /\ finished'.some => game # None]_vars

\* a round started by a tick on which Escape was pressed too, after an earlier
\* round set a record
C19_Witness == JustStarted /\ keys.enter /\ keys.escape /\ best_time > 0

----------------------------------------------------------------------------
(* Liveness: a round in which time passes *)

Horizon == 11       \* get_time() returns values up to this one under LiveSpec
BornBy == 2         \* the asteroids followed are created at a clock up to this one

\* the draws under LiveSpec: an asteroid that falls onto the ship, and the
\* slowest asteroid there is (no speed of its own, in the left corner)
LiveDraws ==
    { [x |-> F(ScreenWidth) \div 2, speed_x |-> F(0), speed_y |-> F(MAX_SPEED) - 1,
       radius |-> F(MAX_RADIUS) - 1],
      [x |-> F(0), speed_x |-> F(0), speed_y |-> F(0), radius |-> F(MIN_RADIUS)] }

\* the environment of LiveSpec: both clock reads of a tick return the same
\* value
LiveWorld == [cap |-> Horizon, intra |-> {0}, draws |-> LiveDraws]

\* the player starts rounds and touches no other key
LiveKeys == { {}, {"Enter"} }

LiveNext == \E down \in LiveKeys, d1 \in Deltas :
                tick(LiveWorld, "Enter" \in down, FALSE, FALSE, FALSE, d1)

\* while a round runs, a later frame sees a later clock
TimePasses == game # None /\ clock' \in (clock + 1)..Horizon

\* the main loop runs without end and real time passes between its frames
LiveSpec == Init /\ [][LiveNext]_vars /\ WF_clock(TimePasses)

\* an asteroid of the round was created at clock t
BornAt(t) == \E i \in 1..Len(born) : born[i] = t

\* C18: in a round in which time keeps passing, every asteroid is eventually
\* removed from the collection, unless the round ends first (followed for the
\* asteroids created up to clock BornBy, with the clock running to Horizon).
C18_EveryAsteroidLeaves ==
    \A t \in 0..BornBy : (game # None /\ BornAt(t)) ~> (game = None \/ ~BornAt(t))

\* the slowest asteroid, created early in the round, has passed the bottom
\* bound while the round goes on
C18_Witness ==
    /\ game # None
    /\ Len(born) = Len(game.asteroids)
    /\ \E i \in 1..Len(born) :
          /\ born[i] <= BornBy
          /\ game.asteroids[i].speed.y = 0
          /\ game.asteroids[i].position.y > F(ScreenHeight) + 3 * F(MAX_RADIUS)

====
